---- MODULE Spec2Model ----
(***************************************************************************)
(* The /api/analyze serverless function of BSSC (src/api/analyze.js):      *)
(* one request through handler(req, res), with fetchExplorerData and the   *)
(* two outbound HTTP calls (explorer GET, Gemini POST).  Every await of    *)
(* the source is a position of pc; the remote side's answer to each await  *)
(* is an input chosen by the environment.                                  *)
(***************************************************************************)
EXTENDS Integers, Sequences, FiniteSets, TLC

(***************************************************************************)
(* Bounds of the model.                                                    *)
(***************************************************************************)
\* queries of every length 0..MaxQueryLen are tried (covers 30/31 and 44/45)
MaxQueryLen == 46

(***************************************************************************)
(* JavaScript values that may be undefined are tagged records.             *)
(***************************************************************************)
Undef == [t |-> "undefined"]
Null == [t |-> "null"]
Str(s) == [t |-> "string", v |-> s]
Obj(f) == [t |-> "object", f |-> f]
Arr(e) == [t |-> "array", e |-> e]
EmptyObj == Obj([k \in {} |-> Undef])

\* JS truthiness, as used by `!query`, `!GEMINI_API_KEY` and `||`
Truthy(v) ==
    /\ v.t \notin {"undefined", "null"}
    /\ (v.t = "string" => v.v # "")

\* v?.[k] for a property name k
OptField(v, k) ==
    IF v.t = "object" /\ k \in DOMAIN v.f THEN v.f[k] ELSE Undef

\* v?.[i] for a zero-based array index i
OptIndex(v, i) ==
    IF v.t = "array" /\ i + 1 \in DOMAIN v.e THEN v.e[i + 1] ELSE Undef

\* String.prototype.slice(from, to) for 0 <= from <= to
Slice(s, from, to) ==
    SubSeq(s, from + 1, IF to < Len(s) THEN to ELSE Len(s))

IsSpace(c) == c \in {" ", "\n", "\t", "\r"}

\* what s.replace(/\s+/g, ' ') leaves of the character at position i: a run
\* of whitespace becomes one space, written at the run's first character
CollapsedAt(s, i) ==
    LET c == SubSeq(s, i, i) IN
    IF ~IsSpace(c) THEN c
    ELSE IF i > 1 /\ IsSpace(SubSeq(s, i - 1, i - 1)) THEN "" ELSE " "

RECURSIVE CollapseRange(_, _, _)
CollapseRange(s, lo, hi) ==
    IF lo > hi THEN ""
    ELSE IF lo = hi THEN CollapsedAt(s, lo)
    ELSE LET mid == (lo + hi) \div 2
         IN  CollapseRange(s, lo, mid) \o CollapseRange(s, mid + 1, hi)

\* s.replace(/\s+/g, ' ')
CollapseWhitespace(s) == CollapseRange(s, 1, Len(s))

\* s.trim()
RECURSIVE Trim(_)
Trim(s) ==
    IF s = "" THEN s
    ELSE IF IsSpace(SubSeq(s, 1, 1)) THEN Trim(SubSeq(s, 2, Len(s)))
    ELSE IF IsSpace(SubSeq(s, Len(s), Len(s))) THEN Trim(SubSeq(s, 1, Len(s) - 1))
    ELSE s

(***************************************************************************)
(* Program constants.                                                      *)
(***************************************************************************)
BSSC_EXPLORER_URL == "https://explorer.bssc.live"
GEMINI_URL ==
    "https://generativelanguage.googleapis.com/v1beta/models/gemini-2.5-pro-exp-09-2025:generateContent?key="
TxIdMinLen == 44
ContextMinLen == 30
BodySliceLen == 1000
ExcerptLen == 500
ErrorDetailLen == 100
\* the context of an earlier draft of the handler: the empty string
DraftContext == ""
DefaultContext == "No specific BSSC data context needed."
NoLegibleResponse == "No legible response from AI."

\* a handler that never looks at the status
OkAlways(status) == TRUE

\* Response.ok of node-fetch: the status is in the range 200-299
Ok(status) == status \in 200..299

(***************************************************************************)
(* Inputs.                                                                 *)
(***************************************************************************)
Base58 == "123456789ABCDEFGHJKLMNPQRSTUVWXYZabcdefghijkmnopqrstuvwxyz"

QueryOfLen(n) == SubSeq(Base58, 1, n)

\* req.body: absent, an object without query, or an object with a string query
Bodies ==
    {Undef, EmptyObj}
        \cup {Obj([query |-> Str(QueryOfLen(n))]) : n \in 0..MaxQueryLen}

Methods == {"POST", "GET"}

\* process.env.VITE_GEMINI_API_KEY: unset, set to the empty string, or set
ApiKeys == {Undef, Str(""), Str("KEY")}

ExplorerStatuses == {200, 404, 500}

RECURSIVE Repeat(_, _)
Repeat(s, n) == IF n = 0 THEN "" ELSE s \o Repeat(s, n - 1)

\* what cheerio reads from the page: $('title').text() and $('body').text();
\* the last page has a body of 1050 characters
Pages ==
    { [title |-> "BSSC Explorer", body |-> "  Balance:\n\n 12   BSSC \t tokens "],
      [title |-> "Transaction", body |-> Repeat("ab  cd ", 150)],
      [title |-> "", body |-> ""],
      [title |-> "Not Found", body |-> "404  page not found"] }

AiStatuses == {200, 429, 500}

AiErrorTexts == {"quota exceeded", "", Base58 \o Base58}

Part(text) == Obj([text |-> text])
Candidate(parts) == Obj([content |-> Obj([parts |-> parts])])
AiData ==
    { Null,
      EmptyObj,
      Obj([error |-> Str("blocked")]),
      Obj([candidates |-> Arr(<<>>)]),
      Obj([candidates |-> Arr(<<EmptyObj>>)]),
      Obj([candidates |-> Arr(<<Obj([content |-> EmptyObj])>>)]),
      Obj([candidates |-> Arr(<<Candidate(Arr(<<>>))>>)]),
      Obj([candidates |-> Arr(<<Candidate(Arr(<<EmptyObj>>))>>)]),
      Obj([candidates |-> Arr(<<Candidate(Arr(<<Part(Str(""))>>))>>)]),
      Obj([candidates |-> Arr(<<Candidate(Arr(<<Part(Str("The balance is 12 BSSC."))>>))>>)]),
      Obj([candidates |-> Arr(<<Candidate(Arr(<<Part(Str("first")), Part(Str("second"))>>)),
                                Candidate(Arr(<<Part(Str("other"))>>))>>)]) }

NetworkErrors == {"request failed, reason: ECONNREFUSED", "socket hang up"}
JsonErrors == {"invalid json response body"}

(***************************************************************************)
(* State of one invocation of handler(req, res).                           *)
(***************************************************************************)
VARIABLES
    req,            \* the request: [method, body]
    GEMINI_API_KEY, \* module constant read from the environment
    pc,             \* position of the handler: "start", an await, or "done"
    query,          \* handler's local `query`
    context,        \* handler's local `context`
    explorer,       \* what fetchExplorerData returned: Undef or Obj([summary])
    explorerRes,    \* the explorer's Response r, once fetch(url) resolved
    explorerError,  \* whether fetchExplorerData's catch block ran
    aiRes,          \* the AI's Response, once the POST resolved
    errorText,      \* the AI's error body, once aiRes.text() resolved
    aiData,         \* the parsed AI body `data`, once aiRes.json() resolved
    calls,          \* outbound HTTP calls issued so far, in order
    inflight,       \* indices in calls of the calls not yet completed
    responses,      \* what was sent on res, in order
    thrown          \* the exception that escaped handler, or "" for none

vars ==
    <<req, GEMINI_API_KEY, pc, query, context, explorer, explorerRes,
      explorerError, aiRes, errorText, aiData, calls, inflight, responses,
      thrown>>

NoResponse == [status |-> 0]

Init ==
    /\ req \in [method : Methods, body : Bodies]
    /\ GEMINI_API_KEY \in ApiKeys
    /\ pc = "start"
    /\ query = Undef
    /\ context = ""
    /\ explorer = Undef
    /\ explorerRes = NoResponse
    /\ explorerError = FALSE
    /\ aiRes = NoResponse
    /\ errorText = Undef
    /\ aiData = Undef
    /\ calls = <<>>
    /\ inflight = {}
    /\ responses = <<>>
    /\ thrown = ""

(***************************************************************************)
(* fetchExplorerData(id)                                                   *)
(***************************************************************************)
\* the cutoff taken inclusively
isTxInclusive(id) == Len(id) >= TxIdMinLen

isTx(id) == Len(id) > TxIdMinLen

url(id) ==
    IF isTx(id)
    THEN BSSC_EXPLORER_URL \o "/tx/" \o id
    ELSE BSSC_EXPLORER_URL \o "/address/" \o id

\* the return of the try block, from the title and body text cheerio read
ParsedSummary(page) ==
    LET text == Trim(CollapseWhitespace(Slice(page.body, 0, BodySliceLen)))
    IN  "Parsed " \o page.title \o ": " \o Slice(text, 0, ExcerptLen) \o "..."

\* the return of the catch block
FallbackSummary(id) == "Error fetching BSSC Explorer data for " \o id \o "."

(***************************************************************************)
(* handler(req, res)                                                       *)
(***************************************************************************)
MethodAllowed(method) == method = "POST"

QueryMissing(q) == ~Truthy(q)

\* a check for an unset variable only, which lets the empty string through
CredentialUndefinedOnly(key) == key.t = "undefined"

CredentialMissing(key) == ~Truthy(key)

\* the context threshold taken one too high
NeedsExplorerOffByOne(q) == Len(q) > ContextMinLen + 1

NeedsExplorer(q) == Len(q) > ContextMinLen

Prompt(ctx, q) == "Context: " \o ctx \o "\nUser query: " \o q

ExplorerGet(id) == [target |-> "explorer", method |-> "GET", url |-> url(id), text |-> ""]

AiPost(ctx, q) ==
    [target |-> "ai", method |-> "POST", url |-> GEMINI_URL \o GEMINI_API_KEY.v,
     text |-> Prompt(ctx, q)]

Send(status, kind, text) == [status |-> status, kind |-> kind, text |-> text]

\* data?.candidates?.[0]?.content?.parts?.[0]?.text
CandidateText(data) ==
    OptField(OptIndex(OptField(OptField(OptIndex(OptField(data, "candidates"), 0),
                                        "content"), "parts"), 0), "text")

\* a ?? b: only undefined and null give way to b
OrElseNullish(a, b) == IF a.t \notin {"undefined", "null"} THEN a.v ELSE b

\* a || b on a possibly undefined string a
OrElse(a, b) == IF Truthy(a) THEN a.v ELSE b

AnswerText(data) == OrElse(CandidateText(data), NoLegibleResponse)

GeminiFailure(status, text) ==
    "Gemini API call failed with status " \o ToString(status) \o ". Details: "
        \o Slice(text, 0, ErrorDetailLen) \o "..."

InternalError(message) == "Internal Server Error: " \o message

\* lines 65-85: the AI POST is issued with the context decided so far
IssueAi(ctx) ==
    /\ context' = ctx
    /\ calls' = Append(calls, AiPost(ctx, query.v))
    /\ inflight' = {Len(calls) + 1}
    /\ pc' = "awaitAiFetch"

\* lines 102-106: the catch block of handler
CatchInternal(message) ==
    /\ responses' = Append(responses, Send(500, "error", InternalError(message)))
    /\ inflight' = {}
    /\ pc' = "done"

\* lines 41-63: from entry to the first await, or to an early return
HandlerEntry ==
    /\ pc = "start"
    /\ UNCHANGED <<req, GEMINI_API_KEY, explorer, explorerRes, explorerError,
                   aiRes, errorText, aiData>>
    /\ IF ~MethodAllowed(req.method)
       THEN /\ responses' = Append(responses, Send(405, "send", "Method Not Allowed"))
            /\ pc' = "done"
            /\ UNCHANGED <<query, context, calls, inflight, thrown>>
       ELSE IF req.body.t \in {"undefined", "null"}
       THEN \* const { query } = req.body throws outside the try block
            /\ thrown' = "TypeError: Cannot destructure property 'query' of 'req.body'"
            /\ pc' = "done"
            /\ UNCHANGED <<query, context, calls, inflight, responses>>
       ELSE LET q == OptField(req.body, "query") IN
            /\ query' = q
            /\ thrown' = thrown
            /\ IF QueryMissing(q)
               THEN /\ responses' = Append(responses, Send(400, "error", "Query is required"))
                    /\ pc' = "done"
                    /\ UNCHANGED <<context, calls, inflight>>
               ELSE IF CredentialMissing(GEMINI_API_KEY)
               THEN /\ responses' = Append(responses,
                            Send(500, "error",
                                 "GEMINI_API_KEY is missing. Check Vercel Environment Variables."))
                    /\ pc' = "done"
                    /\ UNCHANGED <<context, calls, inflight>>
               ELSE IF NeedsExplorer(q.v)
               THEN /\ context' = DefaultContext
                    /\ calls' = Append(calls, ExplorerGet(q.v))
                    /\ inflight' = {Len(calls) + 1}
                    /\ pc' = "awaitExplorerFetch"
                    /\ UNCHANGED responses
               ELSE /\ context' = DefaultContext
                    /\ calls' = Append(calls, AiPost(DefaultContext, q.v))
                    /\ inflight' = {Len(calls) + 1}
                    /\ pc' = "awaitAiFetch"
                    /\ UNCHANGED responses

\* a fetchExplorerData that retries the GET once after a network failure
ExplorerFetchRetries ==
    /\ pc = "awaitExplorerFetch"
    /\ IF Len(calls) < 2
       THEN /\ calls' = Append(calls, ExplorerGet(query.v))
            /\ inflight' = {Len(calls) + 1}
            /\ UNCHANGED <<pc, context, explorer, explorerError>>
       ELSE /\ explorerError' = TRUE
            /\ explorer' = Obj([summary |-> Str(FallbackSummary(query.v))])
            /\ IssueAi(FallbackSummary(query.v))
    /\ UNCHANGED <<req, GEMINI_API_KEY, query, explorerRes, aiRes, errorText,
                   aiData, responses, thrown>>

\* line 23 rejects (network failure); catch of fetchExplorerData, lines 31-35,
\* then handler lines 62-85
ExplorerFetchRejects ==
    /\ pc = "awaitExplorerFetch"
    /\ explorerError' = TRUE
    /\ explorer' = Obj([summary |-> Str(FallbackSummary(query.v))])
    /\ IssueAi(FallbackSummary(query.v))
    /\ UNCHANGED <<req, GEMINI_API_KEY, query, explorerRes, aiRes, errorText,
                   aiData, responses, thrown>>

\* line 23: fetch(url) is fulfilled with a Response r of any status, and
\* .then(r => r.text()) starts reading its body
ExplorerFetchResolves ==
    /\ pc = "awaitExplorerFetch"
    /\ \E status \in ExplorerStatuses :
         explorerRes' = [status |-> status]
    /\ pc' = "awaitExplorerText"
    /\ UNCHANGED <<req, GEMINI_API_KEY, query, context, explorer, explorerError,
                   aiRes, errorText, aiData, calls, inflight, responses, thrown>>

\* r.text() is fulfilled; lines 24-30, then handler lines 62-85
ExplorerTextResolves ==
    /\ pc = "awaitExplorerText"
    /\ \E page \in Pages :
         /\ explorer' = Obj([summary |-> Str(ParsedSummary(page))])
         /\ IssueAi(ParsedSummary(page))
    /\ UNCHANGED <<req, GEMINI_API_KEY, query, explorerRes, explorerError,
                   aiRes, errorText, aiData, responses, thrown>>

\* r.text() rejects (the body stream fails); catch of fetchExplorerData
ExplorerTextRejects ==
    /\ pc = "awaitExplorerText"
    /\ explorerError' = TRUE
    /\ explorer' = Obj([summary |-> Str(FallbackSummary(query.v))])
    /\ IssueAi(FallbackSummary(query.v))
    /\ UNCHANGED <<req, GEMINI_API_KEY, query, explorerRes, aiRes, errorText,
                   aiData, responses, thrown>>

\* line 66 rejects (network failure); catch of handler
AiFetchRejects ==
    /\ pc = "awaitAiFetch"
    /\ \E message \in NetworkErrors : CatchInternal(message)
    /\ UNCHANGED <<req, GEMINI_API_KEY, query, context, explorer, explorerRes,
                   explorerError, aiRes, errorText, aiData, calls, thrown>>

\* line 66 is fulfilled with aiRes; line 88 picks aiRes.text() or aiRes.json()
AiFetchResolves ==
    /\ pc = "awaitAiFetch"
    /\ \E status \in AiStatuses :
         /\ aiRes' = [status |-> status]
         /\ pc' = IF ~Ok(status) THEN "awaitAiText" ELSE "awaitAiJson"
    /\ UNCHANGED <<req, GEMINI_API_KEY, query, context, explorer, explorerRes,
                   explorerError, errorText, aiData, calls, inflight, responses, thrown>>

\* line 89 is fulfilled; lines 90-94
AiTextResolves ==
    /\ pc = "awaitAiText"
    /\ \E text \in AiErrorTexts :
         /\ errorText' = Str(text)
         /\ responses' = Append(responses,
                                Send(502, "error", GeminiFailure(aiRes.status, text)))
    /\ inflight' = {}
    /\ pc' = "done"
    /\ UNCHANGED <<req, GEMINI_API_KEY, query, context, explorer, explorerRes,
                   explorerError, aiRes, aiData, calls, thrown>>

\* line 89 rejects; catch of handler
AiTextRejects ==
    /\ pc = "awaitAiText"
    /\ \E message \in NetworkErrors : CatchInternal(message)
    /\ UNCHANGED <<req, GEMINI_API_KEY, query, context, explorer, explorerRes,
                   explorerError, aiRes, errorText, aiData, calls, thrown>>

\* line 97 is fulfilled with data; lines 98-101
AiJsonResolves ==
    /\ pc = "awaitAiJson"
    /\ \E data \in AiData :
         /\ aiData' = data
         /\ responses' = Append(responses, Send(200, "answer", AnswerText(data)))
    /\ inflight' = {}
    /\ pc' = "done"
    /\ UNCHANGED <<req, GEMINI_API_KEY, query, context, explorer, explorerRes,
                   explorerError, aiRes, errorText, calls, thrown>>

\* line 97 rejects (the body is not JSON, or the stream fails); catch of handler
AiJsonRejects ==
    /\ pc = "awaitAiJson"
    /\ \E message \in NetworkErrors \cup JsonErrors : CatchInternal(message)
    /\ UNCHANGED <<req, GEMINI_API_KEY, query, context, explorer, explorerRes,
                   explorerError, aiRes, errorText, aiData, calls, thrown>>

Next ==
    \/ HandlerEntry
    \/ ExplorerFetchRejects
    \/ ExplorerFetchResolves
    \/ ExplorerTextResolves
    \/ ExplorerTextRejects
    \/ AiFetchRejects
    \/ AiFetchResolves
    \/ AiTextResolves
    \/ AiTextRejects
    \/ AiJsonResolves
    \/ AiJsonRejects

Spec == Init /\ [][Next]_vars


(***************************************************************************)
(* Vocabulary of the properties.                                           *)
(***************************************************************************)
StartsWith(s, prefix) ==
    Len(s) >= Len(prefix) /\ SubSeq(s, 1, Len(prefix)) = prefix

Embeds(s, part) ==
    \E i \in 1..(Len(s) - Len(part) + 1) : SubSeq(s, i, i + Len(part) - 1) = part

CallsTo(target) == {i \in 1..Len(calls) : calls[i].target = target}

\* the request is a POST carrying a body whose query is a non-empty string
HasQuery ==
    /\ req.method = "POST"
    /\ req.body.t = "object"
    /\ "query" \in DOMAIN req.body.f
    /\ req.body.f.query.t = "string"
    /\ req.body.f.query.v # ""

RequestQuery == req.body.f.query.v

KeyConfigured == GEMINI_API_KEY.t = "string" /\ GEMINI_API_KEY.v # ""

ExplorerReturned == explorer # Undef

Summary == explorer.f.summary.v

(***************************************************************************)
(* C1: fetchExplorerData never raises; whenever the GET fails at the       *)
(* network level, completes with a non-success status, or an exception     *)
(* occurs while reading the body, it returns the fallback summary that     *)
(* embeds id; the "Parsed ..." summary is returned only when the GET       *)
(* completed with a success status.                                        *)
(***************************************************************************)
C1_FallbackOnEveryFailure ==
    ExplorerReturned =>
        /\ thrown = ""
        /\ (explorerError \/ explorerRes.status \notin 200..299)
               => /\ StartsWith(Summary, "Error fetching")
                  /\ Embeds(Summary, query.v)
        /\ StartsWith(Summary, "Parsed ") => explorerRes.status \in 200..299

(***************************************************************************)
(* C2: every invocation of handler ends with exactly one response sent     *)
(* (an answer or an error payload) and no exception escaping, also for a   *)
(* POST whose body is absent or has no query; an exception inside the      *)
(* flow is reported as 500 "Internal Server Error: <message>".             *)
(***************************************************************************)
C2_ExactlyOneResponse ==
    pc = "done" =>
        /\ thrown = ""
        /\ Len(responses) = 1
        /\ responses[1].kind \in {"answer", "error", "send"}
        /\ responses[1].status = 500 /\ KeyConfigured
               => \E message \in NetworkErrors \cup JsonErrors :
                      responses[1].text = "Internal Server Error: " \o message

(***************************************************************************)
(* C3: for a request whose query is longer than 30 characters and that     *)
(* passes validation and the credential check, the explorer is invoked     *)
(* exactly once, the summary it returns (parsed or fallback) is the        *)
(* context of the AI prompt, and the AI call is issued exactly after the   *)
(* explorer step ends, whatever its outcome.                               *)
(***************************************************************************)
C3_ExplorerThenAi ==
    (HasQuery /\ Len(RequestQuery) > 30 /\ KeyConfigured /\ pc # "start") =>
        /\ Cardinality(CallsTo("explorer")) = 1
        /\ pc \in {"awaitExplorerFetch", "awaitExplorerText"}
               => ~ExplorerReturned /\ CallsTo("ai") = {}
        /\ pc \notin {"awaitExplorerFetch", "awaitExplorerText"}
               => /\ ExplorerReturned
                  /\ context = Summary
                  /\ CallsTo("ai") = {2}
                  /\ calls[2].text =
                         "Context: " \o Summary \o "\nUser query: " \o RequestQuery

C3_Witness ==
    /\ pc = "done"
    /\ HasQuery /\ Len(RequestQuery) > 30
    /\ explorerError
    /\ CallsTo("ai") = {2}
    /\ responses[1].status = 200

(***************************************************************************)
(* C4: for a request whose query is non-empty and at most 30 characters    *)
(* long, the explorer is never invoked and the AI prompt is                *)
(* "Context: No specific BSSC data context needed.\nUser query: {query}".  *)
(***************************************************************************)
C4_DefaultContext ==
    (HasQuery /\ Len(RequestQuery) <= 30) =>
        /\ CallsTo("explorer") = {}
        /\ ~ExplorerReturned
        /\ \A i \in CallsTo("ai") :
               calls[i].text =
                   "Context: No specific BSSC data context needed.\nUser query: "
                       \o RequestQuery
        /\ KeyConfigured /\ pc # "start"
               => /\ CallsTo("ai") = {1}
                  /\ context = "No specific BSSC data context needed."

C4_Witness ==
    /\ pc = "done"
    /\ HasQuery /\ Len(RequestQuery) = 30
    /\ CallsTo("ai") = {1}
    /\ responses[1].status = 200

(***************************************************************************)
(* C5: when the credential is missing, a request with a non-empty query    *)
(* of any length ends with the 500 configuration-error response and        *)
(* issues neither the explorer GET nor the AI POST.                        *)
(***************************************************************************)
C5_NoCallsWithoutCredential ==
    (HasQuery /\ ~KeyConfigured) =>
        /\ calls = <<>>
        /\ inflight = {}
        /\ pc \in {"start", "done"}
        /\ pc = "done"
               => /\ Len(responses) = 1
                  /\ responses[1].status = 500
                  /\ responses[1].kind = "error"
                  /\ Embeds(responses[1].text, "GEMINI_API_KEY is missing")

C5_Witness ==
    /\ pc = "done"
    /\ HasQuery /\ Len(RequestQuery) > 30
    /\ GEMINI_API_KEY = Str("")
    /\ responses[1].status = 500
    /\ calls = <<>>

(***************************************************************************)
(* C6: when the AI POST completes (status and body received) with a        *)
(* non-success status, the request ends with a 502 error whose message     *)
(* embeds that status; a non-success status never leads to a 200 answer,   *)
(* and the AI endpoint is called exactly once (no retry).                  *)
(***************************************************************************)
C6_UpstreamFailureIs502 ==
    (aiRes # NoResponse /\ aiRes.status \notin 200..299) =>
        /\ Cardinality(CallsTo("ai")) = 1
        /\ \A i \in 1..Len(responses) : responses[i].status # 200
        /\ pc \in {"awaitAiText", "done"}
        /\ (pc = "done" /\ errorText # Undef)
               => /\ Len(responses) = 1
                  /\ responses[1].status = 502
                  /\ responses[1].kind = "error"
                  /\ Embeds(responses[1].text, "status " \o ToString(aiRes.status))

C6_Witness ==
    /\ pc = "done"
    /\ aiRes.status = 429
    /\ errorText = Str("quota exceeded")
    /\ responses[1].status = 502
    /\ Embeds(responses[1].text, "429")

(***************************************************************************)
(* C7: a POST with a missing or empty query (no body, a body without       *)
(* query, or an empty query) ends with the 400 "Query is required"         *)
(* response and contacts neither the explorer nor the AI endpoint,         *)
(* whether or not the credential is configured.                            *)
(***************************************************************************)
C7_MissingQueryIs400 ==
    (req.method = "POST" /\ ~HasQuery) =>
        /\ calls = <<>>
        /\ pc = "done"
               => /\ thrown = ""
                  /\ Len(responses) = 1
                  /\ responses[1].status = 400

(***************************************************************************)
(* C8: one request issues at most two outbound calls, at most one to the   *)
(* explorer and at most one to the AI endpoint, never two in flight at     *)
(* once; when both occur the explorer call has completed, with a result    *)
(* or a failure, before the AI call is issued.                             *)
(***************************************************************************)
C8_SequentialCalls ==
    /\ Len(calls) <= 2
    /\ Cardinality(CallsTo("explorer")) <= 1
    /\ Cardinality(CallsTo("ai")) <= 1
    /\ Cardinality(inflight) <= 1
    /\ inflight \subseteq 1..Len(calls)
    /\ \A a \in CallsTo("ai") : \A e \in CallsTo("explorer") :
           /\ e < a
           /\ e \notin inflight
           /\ ExplorerReturned

C8_Witness ==
    /\ pc = "awaitAiFetch"
    /\ CallsTo("explorer") = {1}
    /\ CallsTo("ai") = {2}
    /\ inflight = {2}

(***************************************************************************)
(* C9 as stated: when the AI POST succeeds, the answer is the text at      *)
(* candidates[0].content.parts[0].text, and the fixed fallback string if   *)
(* a link of that path is missing; the response is a 200 either way.       *)
(***************************************************************************)
PathText == CandidateText(aiData)

C9_AnswerIsCandidateText ==
    (pc = "done" /\ aiData # Undef) =>
        /\ Len(responses) = 1
        /\ responses[1].status = 200
        /\ responses[1].kind = "answer"
        /\ responses[1].text =
               IF PathText # Undef THEN PathText.v ELSE "No legible response from AI."

(***************************************************************************)
(* C9 amended: when the AI POST succeeds and its body parses, the answer   *)
(* is the text at candidates[0].content.parts[0].text if that text is      *)
(* present and not empty, and the fixed fallback string if a link of the   *)
(* path is missing or the text is empty; the response is a 200 either way. *)
(***************************************************************************)
C9_AnswerIsNonEmptyCandidateText ==
    (pc = "done" /\ aiData # Undef) =>
        /\ Len(responses) = 1
        /\ responses[1].status = 200
        /\ responses[1].kind = "answer"
        /\ responses[1].text =
               IF PathText # Undef /\ PathText.v # ""
               THEN PathText.v
               ELSE "No legible response from AI."

C9_Witness ==
    /\ pc = "done"
    /\ aiData # Undef
    /\ PathText = Str("")
    /\ responses[1].status = 200
    /\ responses[1].text = "No legible response from AI."

(***************************************************************************)
(* C10: fetchExplorerData(id) targets {base}/tx/{id} exactly when id has   *)
(* more than 44 characters and {base}/address/{id} otherwise; in the       *)
(* request flow, queries of length 31..44 are fetched as addresses and     *)
(* queries of length 45 or more as transactions.                           *)
(***************************************************************************)
ExpectedUrl(id) ==
    IF Len(id) >= 45
    THEN "https://explorer.bssc.live/tx/" \o id
    ELSE "https://explorer.bssc.live/address/" \o id

C10_UrlByLength ==
    /\ \A n \in 0..MaxQueryLen : url(QueryOfLen(n)) = ExpectedUrl(QueryOfLen(n))
    /\ \A i \in CallsTo("explorer") :
           /\ Len(RequestQuery) >= 31
           /\ calls[i].method = "GET"
           /\ calls[i].url = ExpectedUrl(RequestQuery)

C10_Witness ==
    /\ CallsTo("explorer") = {1}
    /\ Len(RequestQuery) = 44
    /\ calls[1].url = "https://explorer.bssc.live/address/" \o RequestQuery

====
